---- MODULE Spec2Model ----
(***************************************************************************)
(* Contract monitor of docusign-ura: the polling loop, the Processor with  *)
(* its retry loop, the Processed-Set cache and the launcher commands; the   *)
(* contract-processor lambda, the Identity Extractor on its own, and the   *)
(* webhook lambda with the tracking worksheet.                             *)
(* Strings are sequences of one-character strings, so that the filters and *)
(* the filename parser are computed as the Python code computes them.      *)
(***************************************************************************)
EXTENDS Integers, Sequences, FiniteSets, TLC

(* ---------------------------------------------------------------------- *)
(* Bounds of the model                                                     *)
(* ---------------------------------------------------------------------- *)
MaxCount == 2

MaxCreated == 2

MaxObjects == 2

MaxMtime == 2

(* ---------------------------------------------------------------------- *)
(* Python string operations used by the monitor and the S3 helper          *)
(* ---------------------------------------------------------------------- *)
None == <<"None">>

Truthy(s) == s # None /\ s # <<>>

UpperLetters == <<"A","B","C","D","E","F","G","H","I","J","K","L","M","N","O","P","Q","R","S","T","U","V","W","X","Y","Z">>

LowerLetters == <<"a","b","c","d","e","f","g","h","i","j","k","l","m","n","o","p","q","r","s","t","u","v","w","x","y","z">>

IsUpper(c) == \E i \in 1..26 : UpperLetters[i] = c

IsLower(c) == \E i \in 1..26 : LowerLetters[i] = c

IsCased(c) == IsUpper(c) \/ IsLower(c)

LowerChar(c) == IF IsUpper(c) THEN LowerLetters[CHOOSE i \in 1..26 : UpperLetters[i] = c] ELSE c

UpperChar(c) == IF IsLower(c) THEN UpperLetters[CHOOSE i \in 1..26 : LowerLetters[i] = c] ELSE c

Lower(s) == [i \in 1..Len(s) |-> LowerChar(s[i])]

Title(s) == [i \in 1..Len(s) |-> IF i > 1 /\ IsCased(s[i-1]) THEN LowerChar(s[i]) ELSE UpperChar(s[i])]

StartsWith(s, p) == Len(s) >= Len(p) /\ SubSeq(s, 1, Len(p)) = p

EndsWith(s, p) == Len(s) >= Len(p) /\ SubSeq(s, Len(s) - Len(p) + 1, Len(s)) = p

Contains(s, c) == \E i \in 1..Len(s) : s[i] = c

MatchesAt(s, i, old) == i + Len(old) - 1 <= Len(s) /\ SubSeq(s, i, i + Len(old) - 1) = old

RECURSIVE ReplaceFrom(_, _, _, _)
ReplaceFrom(s, i, old, new) ==
    IF i > Len(s) THEN <<>>
    ELSE IF MatchesAt(s, i, old)
         THEN new \o ReplaceFrom(s, i + Len(old), old, new)
         ELSE <<s[i]>> \o ReplaceFrom(s, i + 1, old, new)

\* str.replace(old, new); the argument is bound to its value before the scan
Replace(s, old, new) == CHOOSE r \in {ReplaceFrom(v, 1, old, new) : v \in {s}} : TRUE

LastIndexOf(s, c) == CHOOSE i \in 1..Len(s) : s[i] = c /\ \A j \in (i+1)..Len(s) : s[j] # c

RSplitHead(s, c) == SubSeq(s, 1, LastIndexOf(s, c) - 1)

RSplitTail(s, c) == SubSeq(s, LastIndexOf(s, c) + 1, Len(s))

(* ---------------------------------------------------------------------- *)
(* Configuration                                                           *)
(* ---------------------------------------------------------------------- *)
contracts_folder == <<"c","o","n","t","r","a","t","o","s","-","g","e","r","a","d","o","s","/">>

max_retries == 3

retry_delay == 5

poll_interval_fast == 5

poll_interval_normal == 30

poll_interval_slow == 120

FastWindow == 300

NormalWindow == 3600

DotPdf == <<".","p","d","f">>

AuditPrefix == contracts_folder \o <<"a","u","d","i","t","/">>

(* ---------------------------------------------------------------------- *)
(* The bucket: object keys under the contracts prefix, in the order the    *)
(* storage service lists them (ascending key order)                        *)
(* ---------------------------------------------------------------------- *)
KeyPlain == contracts_folder \o <<"a","-","b","_","c","-","d",".","p","d","f">>

KeyAudit == contracts_folder \o <<"a","u","d","i","t","/","e","_","f",".","p","d","f">>

KeyNoSep == contracts_folder \o <<"g",".","p","d","f">>

KeyNoEmail == contracts_folder \o <<"h","_",".","p","d","f">>

KeyOther == contracts_folder \o <<"k","_","l","-","m",".","p","d","f">>

KeyText == contracts_folder \o <<"n","_","o",".","t","x","t">>

AllKeys == <<KeyPlain, KeyAudit, KeyNoSep, KeyNoEmail, KeyOther, KeyText>>

KeySet == {AllKeys[i] : i \in 1..Len(AllKeys)}

Present(b) == {k \in KeySet : b[k] > 0}

RECURSIVE ListObjects(_, _)
ListObjects(b, i) ==
    IF i > Len(AllKeys) THEN <<>>
    ELSE IF b[AllKeys[i]] > 0
         THEN <<[key |-> AllKeys[i], last_modified |-> b[AllKeys[i]]]>> \o ListObjects(b, i + 1)
         ELSE ListObjects(b, i + 1)

IsPdfObject(obj) == EndsWith(Lower(obj.key), DotPdf)

list_files_in_folder(b) == SelectSeq(ListObjects(b, 1), IsPdfObject)

(* files.sort(key=last_modified, reverse=True) is stable: among the files  *)
(* with the greatest last_modified the first listed one comes first.       *)
LatestIndex(files) ==
    CHOOSE i \in 1..Len(files) :
        /\ \A j \in 1..Len(files) : files[j].last_modified <= files[i].last_modified
        /\ \A j \in 1..(i-1) : files[j].last_modified < files[i].last_modified

NoContract == [none |-> TRUE]

ExtractedName(filename) ==
    IF Contains(filename, "_")
    THEN CHOOSE r \in {Title(spaced) :
                         spaced \in {Replace(RSplitHead(filename, "_"), <<"-">>, <<" ">>)}} : TRUE
    ELSE None

WithDomain_first(email_part) ==
    IF ~Contains(email_part, "@") /\ Contains(email_part, "-")
    THEN Replace(email_part, <<"-">>, <<"@">>)
    ELSE email_part

WithDomain(email_part) ==
    IF ~Contains(email_part, "@") /\ Contains(email_part, "-")
    THEN RSplitHead(email_part, "-") \o <<"@">> \o RSplitTail(email_part, "-")
    ELSE email_part

ExtractedEmail(filename) ==
    IF Contains(filename, "_")
    THEN CHOOSE r \in {WithDomain(email_part) :
                         email_part \in {Replace(RSplitTail(filename, "_"), <<"_">>, <<".">>)}} : TRUE
    ELSE None

StripName(key, folder_prefix) == Replace(Replace(key, folder_prefix, <<>>), DotPdf, <<>>)

WithIdentity(latest_file, filename) ==
    [key |-> latest_file.key,
     last_modified |-> latest_file.last_modified,
     extracted_name |-> ExtractedName(filename),
     extracted_email |-> ExtractedEmail(filename)]

ExtractIdentity(latest_file, folder_prefix) ==
    CHOOSE r \in {WithIdentity(latest_file, filename) :
                    filename \in {StripName(latest_file.key, folder_prefix)}} : TRUE

LatestOf(files, folder_prefix) ==
    IF files = <<>> THEN NoContract
    ELSE CHOOSE r \in {ExtractIdentity(latest_file, folder_prefix) :
                         latest_file \in {files[LatestIndex(files)]}} : TRUE

get_latest_contract(b, folder_prefix) ==
    CHOOSE r \in {LatestOf(files, folder_prefix) : files \in {list_files_in_folder(b)}} : TRUE

(* ---------------------------------------------------------------------- *)
(* ContratoMonitor: pure parts                                             *)
(* ---------------------------------------------------------------------- *)
\* self.stats of a new monitor; start_time is a datetime object
ZeroStats == [contracts_processed |-> 0, errors |-> 0, start_time |-> "datetime"]

\* what _load_cache meets in the file: a JSON object as _save_cache writes it ("json"), a
\* file that cannot be opened or parsed ("unreadable"), or a JSON object whose stats
\* entry is not a mapping ("bad_stats")
CacheContents == {"json", "unreadable", "bad_stats"}

NoCacheFile ==
    [exists |-> FALSE, content |-> "json", processed_contracts |-> <<>>, stats |-> ZeroStats]

\* list(self.processed_contracts): the JSON array of the keys, each once
KeyList(processed) == SelectSeq(AllKeys, LAMBDA k : k \in processed)

\* set(cache_data.get("processed_contracts", []))
KeySetOf(key_list) == {key_list[i] : i \in 1..Len(key_list)}

\* json.dump(..., default=str): the counters stay numbers, start_time becomes a string
DumpStats(st) == [st EXCEPT !.start_time = "str"]

PersistedKeys(cf) == KeySetOf(cf.processed_contracts)

LoadProcessed_forgets(cf) == {}

\* open() and json.load() return
Parses(cf) == cf.content # "unreadable"

\* the assignment of line 110 is reached unless open() or json.load() raised
LoadProcessed(cf) ==
    IF cf.exists /\ Parses(cf) THEN KeySetOf(cf.processed_contracts) ELSE {}

\* self.stats.update(cache_data.get("stats", {})): every key of the file replaces the new one
UpdateStats(fresh, file_stats) ==
    [f \in DOMAIN fresh |-> IF f \in DOMAIN file_stats THEN file_stats[f] ELSE fresh[f]]

LoadStats_fresh(cf) == ZeroStats

\* self.stats.update raises on a stats entry that is not a mapping and stats stays new
LoadStats(cf) ==
    IF cf.exists /\ Parses(cf) /\ cf.content # "bad_stats"
    THEN UpdateStats(ZeroStats, cf.stats)
    ELSE ZeroStats

Count_twice(st, counter) == [st EXCEPT ![counter] = @ + 2]

\* self.stats["contracts_processed"] += 1 and self.stats["errors"] += 1
Count(st, counter) == [st EXCEPT ![counter] = @ + 1]

SaveCache(processed, st) ==
    [exists |-> TRUE, content |-> "json", processed_contracts |-> KeyList(processed),
     stats |-> DumpStats(st)]

\* _print_stats: datetime.now() - self.stats["start_time"] raises TypeError on a string
CanPrintStats(st) == st.start_time = "datetime"

get_poll_interval_inclusive(time_since_activity) ==
    IF time_since_activity <= FastWindow THEN poll_interval_fast
    ELSE IF time_since_activity <= NormalWindow THEN poll_interval_normal
    ELSE poll_interval_slow

get_poll_interval(time_since_activity) ==
    IF time_since_activity < FastWindow THEN poll_interval_fast
    ELSE IF time_since_activity < NormalWindow THEN poll_interval_normal
    ELSE poll_interval_slow

RefreshActivity_always(activity, t, ok) == t

\* self.last_activity = datetime.now() in the success branch only
RefreshActivity(activity, t, ok) == IF ok THEN t ELSE activity

PassesFilter(filename, processed) ==
    /\ EndsWith(Lower(filename), DotPdf)
    /\ filename \notin processed
    /\ ~StartsWith(filename, AuditPrefix)

HasExtracted(file_info) == "extracted_name" \in DOMAIN file_info

AppendIfNamed_unnamed(contract_data, rest) ==
    IF contract_data # NoContract THEN <<contract_data>> \o rest ELSE rest

AppendIfNamed(contract_data, rest) ==
    IF contract_data # NoContract /\ Truthy(contract_data.extracted_name)
    THEN <<contract_data>> \o rest
    ELSE rest

RECURSIVE CollectNew(_, _, _, _)
CollectNew(files, i, b, processed) ==
    IF i > Len(files) THEN <<>>
    ELSE LET file_info == files[i]
             rest == CollectNew(files, i + 1, b, processed)
         IN  IF PassesFilter(file_info.key, processed)
             THEN IF HasExtracted(file_info)
                  THEN <<file_info>> \o rest
                  ELSE CHOOSE r \in {AppendIfNamed(contract_data, rest) :
                           contract_data \in {get_latest_contract(b, contracts_folder)}} : TRUE
             ELSE rest

check_new_contracts(b, processed) ==
    CHOOSE r \in {CollectNew(files, 1, b, processed) : files \in {list_files_in_folder(b)}} : TRUE

RECURSIVE FilteredKeys(_, _, _)
FilteredKeys(files, i, processed) ==
    IF i > Len(files) THEN <<>>
    ELSE IF PassesFilter(files[i].key, processed)
         THEN <<files[i].key>> \o FilteredKeys(files, i + 1, processed)
         ELSE FilteredKeys(files, i + 1, processed)

ExpectedKeys(b, processed) ==
    CHOOSE r \in {FilteredKeys(files, 1, processed) : files \in {list_files_in_folder(b)}} : TRUE

NeedsRefetch_always(contract_info) == TRUE

NeedsRefetch(contract_info) ==
    ~HasExtracted(contract_info) \/ ~Truthy(contract_info.extracted_name)

\* outcomes of the listing made by the refetch, when there is one
RefetchOutcomes(contract_info) ==
    IF NeedsRefetch(contract_info) THEN {"ok", "client_error", "exception"} ELSE {"skipped"}

ResolveIdentity(contract_info, b, refetch) ==
    IF refetch = "ok"
    THEN LET fresh_data == get_latest_contract(b, contracts_folder)
         IN  IF fresh_data # NoContract /\ Truthy(fresh_data.extracted_name)
             THEN fresh_data
             ELSE contract_info
    ELSE contract_info

GetField(contract_info, f) == IF f \in DOMAIN contract_info THEN contract_info[f] ELSE None

IdentityMissing_nameOnly(signer_name, signer_email) == ~Truthy(signer_name)

IdentityMissing(signer_name, signer_email) == ~Truthy(signer_name) \/ ~Truthy(signer_email)

MoreAttempts(att) == att + 1 < max_retries

SleepAfterFailure_always(att) == TRUE

SleepAfterFailure_never(att) == FALSE

SleepAfterFailure(att) == att < max_retries - 1

MarkProcessed_always(processed, key, ok) == processed \cup {key}

MarkProcessed_never(processed, key, ok) == processed

MarkProcessed(processed, key, ok) == IF ok THEN processed \cup {key} ELSE processed

SavesPerCandidate(m) == m = "daemon"

ReturnsAfterListing_pending(m, found) == m # "daemon" /\ found = <<>>

\* run_check() only prints what it found; run_process_all() returns when nothing is pending
ReturnsAfterListing(m, found) == m = "check" \/ (m = "process_all" /\ found = <<>>)

\* errors += 1 in the for loop of run_process_all(); run() keeps no such count
CountFailure(m, n) == IF m = "process_all" THEN n + 1 ELSE n

NoExit == 0 - 1

init_s3_client_swallowed(s3) ==
    [s3_helper |-> IF s3 = "ok" THEN "S3Helper" ELSE "None", raised |-> FALSE]

\* _init_s3_client: self.s3_helper is bound when S3Helper(...) returns; its error is
\* logged and raised again
init_s3_client(s3) ==
    [s3_helper |-> IF s3 = "ok" THEN "S3Helper" ELSE "None", raised |-> s3 # "ok"]

\* sys.exit(main()): None and 0 end the process with exit code 0; 1, or an exception
\* nobody caught, with exit code 1
sys_exit(ret) == IF ret \in {"None", "0"} THEN 0 ELSE 1

ResultFileName(key) ==
    Replace(Replace(key, <<"/">>, <<"_">>), DotPdf, <<>>) \o <<"_","r","e","s","u","l","t",".","j","s","o","n">>

FailureOutcomes == {"unknown_error", "validation_error", "consent_required", "exception"}

Outcomes == {"success"} \cup FailureOutcomes

Modes == {"daemon", "process_all", "check"}

NonRetryable == {"validation_error", "consent_required"}

NoInvocation ==
    [ret |-> "none", key |-> None, calls |-> 0, attempt_no |-> 0, slept |-> 0, error |-> "none",
     errors_delta |-> 0, processed_delta |-> 0, set_changed |-> FALSE, audited |-> FALSE,
     dir_existed |-> FALSE, tracker |-> "not_called"]

\* what add_or_update_contract_link does: the row is written, GoogleSheetsHelper() or the
\* write raises, or the helper module is not installed and the block is skipped
UpsertOutcomes == {"updated", "error", "not_called"}

create_signing_envelope_strict(o, gs) ==
    IF o = "success" /\ gs # "error"
    THEN [success |-> TRUE, error |-> "none", tracker |-> gs]
    ELSE [success |-> FALSE, error |-> IF o = "success" THEN "unknown_error" ELSE o,
          tracker |-> "not_called"]

\* create_signing_envelope of contract_signing_api: the result after the worker returned
\* or raised; an error of the upsert is written into the result and success stays true
create_signing_envelope(o, gs) ==
    IF o = "success"
    THEN [success |-> TRUE, error |-> "none", tracker |-> gs]
    ELSE [success |-> FALSE, error |-> o, tracker |-> "not_called"]

ProcIds == {1, 2}

\* a monitor process of the race model: the state of its ContratoMonitor, the
\* candidates left in its for loop, and what it loaded and did (loaded, ok_keys, made)
NoProc == [pc |-> "idle", mode |-> "daemon", processed_contracts |-> {}, stats |-> ZeroStats,
           new_contracts |-> <<>>, loaded |-> {}, ok_keys |-> {}, made |-> 0]

RaceModes == {"daemon", "process_all"}

RaceKeys == {KeyPlain, KeyOther}

(* ---------------------------------------------------------------------- *)
(* State                                                                   *)
(* ---------------------------------------------------------------------- *)
VARIABLES
    bucket,              \* object key -> last_modified (0: no such object)
    cache_file,          \* contrato_cache.json
    processed_dir,       \* the results directory exists
    audit,               \* names of the result files in the results directory
    pc,                  \* position of the monitor process ("idle": no process)
    mode,                \* launcher command the process runs
    s3_helper,           \* ContratoMonitor.s3_helper
    running,             \* ContratoMonitor.running
    processed_contracts, \* ContratoMonitor.processed_contracts
    stats,               \* ContratoMonitor.stats
    new_contracts,       \* result of _check_new_contracts of this cycle
    idx,                 \* position of the for loop over new_contracts
    cur,                 \* contract_info of the running _process_contract
    attempt,             \* loop variable of the retry loop
    calls,               \* create_signing_envelope calls made by this invocation
    last_error,          \* error class of the latest failed call of this invocation
    slept,               \* seconds this invocation spent in time.sleep(retry_delay)
    last,                \* summary of the last finished _process_contract
    dispatched,          \* keys passed to _process_contract in this cycle
    expected,            \* listed keys that passed the filter in this cycle
    created,             \* key -> number of envelopes created for it
    okThisRun,           \* keys whose _process_contract returned True in this process
    loaded,              \* Processed-Set this process loaded at startup
    cleared,             \* clear-cache ran since this process started
    exit_status,         \* how the last process ended: "returned", "raised" out of run(), "init_failed"
    errors,              \* the local errors of run_process_all()
    exit_code,           \* exit code of the last launcher process (NoExit: none has ended)
    now,                 \* the clock read by datetime.now()
    last_activity,       \* ContratoMonitor.last_activity
    interval,            \* interval computed by run() for the sleep in progress
    procs,               \* monitor processes that run side by side on one cache file
    events,              \* object keys whose storage notification is not handled yet
    envelope_calls,      \* Envelope Creator calls made by the contract-processor lambda
    lambda_result,       \* response of the last contract-processor invocation
    sample,              \* object key handed to the Identity Extractor
    extracted,           \* what the Identity Extractor returned for sample
    sheet,               \* rows of the tracking worksheet below the header
    sheets_helper,       \* DocuSignWebhookHandler.sheets_helper is not None
    webhook_result,      \* response of the last process_webhook call
    tracker_calls        \* update_contract_status calls made by the last process_webhook

vars == <<bucket, cache_file, processed_dir, audit, pc, mode, s3_helper, running, processed_contracts,
          stats, new_contracts, idx, cur, attempt, calls, last_error, slept, last, dispatched,
          expected, created, okThisRun, loaded, cleared, exit_status, errors, exit_code, now,
          last_activity,
          interval, procs, events, envelope_calls, lambda_result, sample, extracted, sheet,
          sheets_helper, webhook_result, tracker_calls>>

lambdaVars == <<events, envelope_calls, lambda_result>>

extractorVars == <<sample, extracted>>

webhookVars == <<sheet, sheets_helper, webhook_result, tracker_calls>>

edgeVars == <<lambdaVars, extractorVars, webhookVars>>

envVars == <<now, procs, edgeVars>>

storeVars == <<cache_file, processed_dir, audit>>

loopVars == <<new_contracts, idx, dispatched, expected>>

callVars == <<cur, attempt, calls, last_error, slept>>

ValidBucket(b) == Cardinality(Present(b)) <= MaxObjects

NoResponse == [statusCode |-> 0]

\* no monitor process exists yet; the cache file and the results directory are absent
InitMonitor ==
    /\ cache_file = NoCacheFile
    /\ processed_dir = FALSE
    /\ audit = {}
    /\ pc = "idle"
    /\ mode = "daemon"
    /\ s3_helper = "None"
    /\ running = TRUE
    /\ processed_contracts = {}
    /\ stats = ZeroStats
    /\ new_contracts = <<>>
    /\ idx = 1
    /\ cur = NoContract
    /\ attempt = 0
    /\ calls = 0
    /\ last_error = "none"
    /\ slept = 0
    /\ last = NoInvocation
    /\ dispatched = <<>>
    /\ expected = <<>>
    /\ created = [k \in KeySet |-> 0]
    /\ okThisRun = {}
    /\ loaded = {}
    /\ cleared = FALSE
    /\ exit_status = "none"
    /\ errors = 0
    /\ exit_code = NoExit
    /\ now = 0
    /\ last_activity = 0
    /\ interval = 0
    /\ procs = [i \in ProcIds |-> NoProc]

\* the lambdas have not been invoked; the worksheet has no rows
InitEdge ==
    /\ events = {}
    /\ envelope_calls = {}
    /\ lambda_result = NoResponse
    /\ sample = None
    /\ extracted = NoContract
    /\ sheet = <<>>
    /\ sheets_helper = TRUE
    /\ webhook_result = NoResponse
    /\ tracker_calls = 0

Init ==
    /\ bucket \in {b \in [KeySet -> 0..MaxMtime] : ValidBucket(b)}
    /\ InitMonitor
    /\ InitEdge

(* ---------------------------------------------------------------------- *)
(* Operations                                                              *)
(* ---------------------------------------------------------------------- *)
\* ContratoMonitor.__init__ as called by main(), run_process_all() and run_check():
\* _load_cache, _create_directories, then _init_s3_client. When that raises, main() lets
\* the error out of the process and the two launcher functions print it and return 1
Construct(m, s3) ==
    /\ pc = "idle"
    /\ mode' = m
    /\ s3_helper' = init_s3_client(s3).s3_helper
    /\ running' = TRUE
    /\ processed_contracts' = LoadProcessed(cache_file)
    /\ stats' = LoadStats(cache_file)
    /\ processed_dir' = TRUE
    /\ pc' = IF init_s3_client(s3).raised THEN "idle" ELSE "loop"
    /\ new_contracts' = <<>>
    /\ idx' = 1
    /\ dispatched' = <<>>
    /\ expected' = <<>>
    /\ cur' = NoContract
    /\ attempt' = 0
    /\ calls' = 0
    /\ last_error' = "none"
    /\ slept' = 0
    /\ last' = NoInvocation
    /\ okThisRun' = {}
    /\ loaded' = IF init_s3_client(s3).raised THEN {} ELSE LoadProcessed(cache_file)
    /\ cleared' = FALSE
    /\ exit_status' = IF init_s3_client(s3).raised THEN "init_failed" ELSE "none"
    /\ errors' = 0
    /\ exit_code' = IF init_s3_client(s3).raised
                    THEN sys_exit(IF m = "daemon" THEN "raised" ELSE "1")
                    ELSE NoExit
    /\ last_activity' = now
    /\ UNCHANGED <<bucket, cache_file, audit, created, interval, envVars>>

\* the storage client is created
StartProcess(m) == Construct(m, "ok")

\* the storage client cannot be created
StartFails(m) == Construct(m, "error")

\* the process ends: its loop and call state is gone with it
ProcessEnds ==
    /\ pc' = "idle"
    /\ new_contracts' = <<>>
    /\ idx' = 1
    /\ dispatched' = <<>>
    /\ expected' = <<>>
    /\ cur' = NoContract
    /\ attempt' = 0
    /\ calls' = 0
    /\ last_error' = "none"
    /\ slept' = 0
    /\ last' = NoInvocation
    /\ okThisRun' = {}
    /\ loaded' = {}
    /\ cleared' = FALSE
    /\ errors' = 0

\* _check_new_contracts; listing is "ok", a ClientError (list_files_in_folder
\* returns []) or another exception (caught, counted, [] returned)
CheckNewContracts(listing) ==
    /\ pc = "loop"
    /\ mode = "daemon" => running
    /\ listing = "exception" => stats.errors < MaxCount
    /\ stats' = IF listing = "exception" THEN Count(stats, "errors") ELSE stats
    /\ \E found \in {IF listing = "ok" THEN check_new_contracts(bucket, processed_contracts) ELSE <<>>} :
          IF ReturnsAfterListing(mode, found)
          THEN /\ ProcessEnds
               /\ exit_status' = "returned"
               /\ exit_code' = sys_exit("0")
          ELSE /\ new_contracts' = found
               /\ pc' = "dispatch"
               /\ expected' = IF listing = "ok" THEN ExpectedKeys(bucket, processed_contracts) ELSE <<>>
               /\ idx' = 1
               /\ dispatched' = <<>>
               /\ UNCHANGED <<callVars, last, okThisRun, loaded, cleared, exit_status, errors,
                              exit_code>>
    /\ UNCHANGED <<bucket, storeVars, mode, s3_helper, running, processed_contracts, created,
                   last_activity, interval, envVars>>

\* an exception leaves _process_contract: run() logs it, saves the cache and prints the
\* statistics in its finally block; run_process_all() prints it and returns 1
Crash ==
    /\ cache_file' = IF mode = "daemon" THEN SaveCache(processed_contracts, stats) ELSE cache_file
    /\ exit_status' = IF mode = "daemon" /\ ~CanPrintStats(stats) THEN "raised" ELSE "returned"
    /\ exit_code' = sys_exit(IF mode = "daemon"
                              THEN IF CanPrintStats(stats) THEN "None" ELSE "raised"
                              ELSE "1")
    /\ ProcessEnds

\* for contract in new_contracts: _process_contract(contract), up to the retry loop
Dispatch ==
    /\ pc = "dispatch"
    /\ idx <= Len(new_contracts)
    /\ \E refetch \in RefetchOutcomes(new_contracts[idx]) :
          IF refetch = "exception"
          THEN Crash
          ELSE LET contract_info == ResolveIdentity(new_contracts[idx], bucket, refetch)
                   signer_name == GetField(contract_info, "extracted_name")
                   signer_email == GetField(contract_info, "extracted_email")
               IN  /\ dispatched' = Append(dispatched, new_contracts[idx].key)
                   /\ cur' = contract_info
                   /\ attempt' = 0
                   /\ calls' = 0
                   /\ last_error' = "none"
                   /\ slept' = 0
                   /\ IF IdentityMissing(signer_name, signer_email)
                      THEN /\ pc' = "dispatch"
                           /\ idx' = idx + 1
                           /\ errors' = CountFailure(mode, errors)
                           /\ last' = [NoInvocation EXCEPT !.ret = "no_identity",
                                                            !.key = contract_info.key,
                                                            !.dir_existed = processed_dir]
                      ELSE /\ pc' = "attempt"
                           /\ last' = NoInvocation
                           /\ UNCHANGED <<idx, errors>>
                   /\ UNCHANGED <<cache_file, new_contracts, expected, okThisRun, loaded, cleared,
                                  exit_status, exit_code>>
    /\ UNCHANGED <<bucket, processed_dir, audit, mode, s3_helper, running, processed_contracts, stats,
                   created, last_activity, interval, envVars>>

\* the retry loop is left without success: stats["errors"] += 1; return False
GiveUp ==
    /\ stats.errors < MaxCount
    /\ stats' = Count(stats, "errors")
    /\ processed_contracts' = MarkProcessed(processed_contracts, cur.key, FALSE)
    /\ last' = [ret |-> "failed", key |-> cur.key, calls |-> calls', attempt_no |-> attempt + 1,
                slept |-> slept', error |-> last_error',
                errors_delta |-> stats'.errors - stats.errors,
                processed_delta |-> stats'.contracts_processed - stats.contracts_processed,
                set_changed |-> (processed_contracts' # processed_contracts),
                audited |-> FALSE, dir_existed |-> processed_dir, tracker |-> "not_called"]
    /\ last_activity' = RefreshActivity(last_activity, now, FALSE)
    /\ errors' = CountFailure(mode, errors)
    /\ idx' = idx + 1
    /\ pc' = "dispatch"

\* one pass of the retry loop: create_signing_envelope (o: what the worker does, gs: what
\* the upsert of the tracking worksheet does) and what follows its result
AttemptWith(o, gs) ==
    /\ pc = "attempt"
    /\ calls' = calls + 1
    /\ o = "success" => created[cur.key] < MaxCreated
    /\ created' = IF o = "success" THEN [created EXCEPT ![cur.key] = @ + 1] ELSE created
    /\ IF create_signing_envelope(o, gs).success
       THEN /\ stats.contracts_processed < MaxCount
            /\ audit' = IF processed_dir THEN audit \cup {ResultFileName(cur.key)} ELSE audit
            /\ stats' = Count(stats, "contracts_processed")
            /\ processed_contracts' = MarkProcessed(processed_contracts, cur.key, TRUE)
            /\ cache_file' = IF SavesPerCandidate(mode)
                             THEN SaveCache(processed_contracts', stats')
                             ELSE cache_file
            /\ okThisRun' = okThisRun \cup {cur.key}
            /\ last_activity' = RefreshActivity(last_activity, now, TRUE)
            /\ last' = [ret |-> "success", key |-> cur.key, calls |-> calls',
                        attempt_no |-> attempt + 1, slept |-> slept, error |-> "none",
                        errors_delta |-> stats'.errors - stats.errors,
                        processed_delta |-> stats'.contracts_processed - stats.contracts_processed,
                        set_changed |-> (processed_contracts' # processed_contracts),
                        audited |-> (ResultFileName(cur.key) \in audit'),
                        dir_existed |-> processed_dir,
                        tracker |-> create_signing_envelope(o, gs).tracker]
            /\ idx' = idx + 1
            /\ pc' = "dispatch"
            /\ UNCHANGED <<processed_dir, attempt, slept, last_error, errors>>
       ELSE /\ last_error' = create_signing_envelope(o, gs).error
            /\ UNCHANGED <<storeVars, slept, okThisRun>>
            /\ IF SleepAfterFailure(attempt)
               THEN /\ pc' = "retry_sleep"
                    /\ UNCHANGED <<processed_contracts, stats, idx, attempt, last, last_activity,
                                   errors>>
               ELSE IF MoreAttempts(attempt)
               THEN /\ attempt' = attempt + 1
                    /\ UNCHANGED <<processed_contracts, stats, idx, pc, last, last_activity,
                                   errors>>
               ELSE /\ GiveUp
                    /\ UNCHANGED attempt
    /\ UNCHANGED <<bucket, mode, s3_helper, running, new_contracts, cur, dispatched, expected,
                   loaded, cleared, exit_status, exit_code, interval, envVars>>

\* the tracking worksheet is updated
Attempt(o) == AttemptWith(o, "updated")

\* time.sleep(retry_delay) after a failed attempt
RetrySleep ==
    /\ pc = "retry_sleep"
    /\ slept' = slept + retry_delay
    /\ UNCHANGED <<calls, last_error>>
    /\ IF MoreAttempts(attempt)
       THEN /\ attempt' = attempt + 1
            /\ pc' = "attempt"
            /\ UNCHANGED <<stats, idx, last, processed_contracts, last_activity, errors>>
       ELSE /\ GiveUp
            /\ UNCHANGED attempt
    /\ UNCHANGED <<bucket, storeVars, mode, s3_helper, running, new_contracts, cur, dispatched, expected,
                   created, okThisRun, loaded, cleared, exit_status, exit_code, interval, envVars>>

\* end of the for loop: run() goes on to time.sleep(interval), run_process_all()
\* saves the cache and returns
EndCycle ==
    /\ pc = "dispatch"
    /\ idx > Len(new_contracts)
    /\ IF mode = "daemon"
       THEN /\ pc' = "sleep"
            /\ interval' = get_poll_interval(now - last_activity)
            /\ UNCHANGED <<cache_file, loopVars, callVars, last, okThisRun, loaded, cleared,
                           exit_status, errors, exit_code>>
       ELSE /\ cache_file' = SaveCache(processed_contracts, stats)
            /\ exit_status' = "returned"
            /\ exit_code' = sys_exit(IF errors = 0 THEN "0" ELSE "1")
            /\ ProcessEnds
            /\ UNCHANGED interval
    /\ UNCHANGED <<bucket, processed_dir, audit, mode, s3_helper, running, processed_contracts, stats, created,
                   last_activity, envVars>>

\* time.sleep(interval) of run(), back to the while test
PollSleep ==
    /\ pc = "sleep"
    /\ pc' = "loop"
    /\ interval' = 0
    /\ UNCHANGED <<bucket, storeVars, mode, s3_helper, running, processed_contracts, stats, loopVars,
                   callVars, last, created, okThisRun, loaded, cleared, exit_status, errors,
                   exit_code, last_activity, envVars>>

\* _signal_handler (the flag is read by run() only)
Signal ==
    /\ pc # "idle"
    /\ mode = "daemon"
    /\ running
    /\ running' = FALSE
    /\ UNCHANGED <<bucket, storeVars, pc, mode, s3_helper, processed_contracts, stats, loopVars, callVars,
                   last, created, okThisRun, loaded, cleared, exit_status, errors, exit_code,
                   last_activity, interval, envVars>>

SaveOnExit_skips(cf, processed, st) == cf

\* finally: self._save_cache()
SaveOnExit(cf, processed, st) == SaveCache(processed, st)

\* while self.running is false: the finally block of run()
ExitDaemon ==
    /\ pc = "loop"
    /\ mode = "daemon"
    /\ ~running
    /\ cache_file' = SaveOnExit(cache_file, processed_contracts, stats)
    /\ exit_status' = IF CanPrintStats(stats) THEN "returned" ELSE "raised"
    /\ exit_code' = sys_exit(IF CanPrintStats(stats) THEN "None" ELSE "raised")
    /\ ProcessEnds
    /\ UNCHANGED <<bucket, processed_dir, audit, mode, s3_helper, running, processed_contracts, stats, created,
                   last_activity, interval, envVars>>

\* launcher command clear-cache, run from another shell
ClearCache ==
    /\ cache_file.exists \/ processed_dir
    /\ cache_file' = NoCacheFile
    /\ processed_dir' = FALSE
    /\ audit' = {}
    /\ cleared' = (pc # "idle")
    /\ UNCHANGED <<bucket, pc, mode, s3_helper, running, processed_contracts, stats, loopVars, callVars,
                   last, created, okThisRun, loaded, exit_status, errors, exit_code, last_activity,
                   interval, envVars>>

Next ==
    \/ \E m \in Modes : StartProcess(m)
    \/ \E listing \in {"ok", "client_error", "exception"} : CheckNewContracts(listing)
    \/ Dispatch
    \/ \E o \in Outcomes : Attempt(o)
    \/ RetrySleep
    \/ EndCycle
    \/ PollSleep
    \/ Signal
    \/ ExitDaemon
    \/ ClearCache

Spec == Init /\ [][Next]_vars

(* ---------------------------------------------------------------------- *)
(* Two runs over one object, the cache file kept between them              *)
(* ---------------------------------------------------------------------- *)
InitIdem == Init /\ Cardinality(Present(bucket)) = 1

NextIdem ==
    \/ \E m \in Modes : StartProcess(m)
    \/ \E listing \in {"ok", "client_error", "exception"} : CheckNewContracts(listing)
    \/ Dispatch
    \/ \E o \in Outcomes : Attempt(o)
    \/ RetrySleep
    \/ EndCycle
    \/ PollSleep
    \/ Signal
    \/ ExitDaemon

SpecIdem == InitIdem /\ [][NextIdem]_vars

(* ---------------------------------------------------------------------- *)
(* One object in the bucket, the storage client may fail to initialize     *)
(* ---------------------------------------------------------------------- *)
NextStartup ==
    \/ NextIdem
    \/ \E m \in Modes : StartFails(m)

StartupSpec == InitIdem /\ [][NextStartup]_vars

(* ---------------------------------------------------------------------- *)
(* One object in the bucket, the tracking worksheet may fail               *)
(* ---------------------------------------------------------------------- *)
NextTracker ==
    \/ NextIdem
    \/ \E o \in Outcomes, gs \in UpsertOutcomes \ {"updated"} : AttemptWith(o, gs)

TrackerSpec == InitIdem /\ [][NextTracker]_vars

(* ---------------------------------------------------------------------- *)
(* One object in the bucket, every launcher command (clear-cache included) *)
(* ---------------------------------------------------------------------- *)
SpecSingle == InitIdem /\ [][Next]_vars

(* ---------------------------------------------------------------------- *)
(* Two parseable objects in the bucket, every launcher command             *)
(* ---------------------------------------------------------------------- *)
InitPair == Init /\ Present(bucket) = {KeyPlain, KeyOther}

SpecPair == InitPair /\ [][Next]_vars

(* ---------------------------------------------------------------------- *)
(* The daemon kept running: no signal, listing and envelope creation that  *)
(* cannot fail forever                                                     *)
(* ---------------------------------------------------------------------- *)
NextLive ==
    \/ StartProcess("daemon")
    \/ \E listing \in {"ok", "client_error", "exception"} : CheckNewContracts(listing)
    \/ Dispatch
    \/ \E o \in Outcomes : Attempt(o)
    \/ RetrySleep
    \/ EndCycle
    \/ PollSleep

LiveSpec ==
    /\ Init
    /\ [][NextLive]_vars
    /\ WF_vars(NextLive)
    /\ SF_vars(CheckNewContracts("ok"))
    /\ SF_vars(Attempt("success"))

(* ---------------------------------------------------------------------- *)
(* Two monitor processes (daemon or process-all) side by side on one cache *)
(* file and one bucket, each run once; objects are uploaded meanwhile. A   *)
(* step is a whole method call: the calls of one process are sequential    *)
(* and only the cache file and the bucket are shared.                      *)
(* ---------------------------------------------------------------------- *)
monitorVars_core == <<pc, mode, s3_helper, running, processed_contracts, stats, new_contracts, idx, cur,
                      attempt, calls, last_error, slept, last, dispatched, expected, okThisRun,
                      loaded, cleared, exit_status, errors, exit_code, now, last_activity,
                      interval>>

monitorVars == <<monitorVars_core, edgeVars>>

InitRace == Init /\ Present(bucket) \subseteq RaceKeys

\* ContratoMonitor(): _load_cache and _create_directories
RaceStart(i, m) ==
    /\ procs[i].pc = "idle"
    /\ procs' = [procs EXCEPT ![i] = [pc |-> "loop", mode |-> m,
                                      processed_contracts |-> LoadProcessed(cache_file),
                                      stats |-> LoadStats(cache_file),
                                      new_contracts |-> <<>>,
                                      loaded |-> LoadProcessed(cache_file),
                                      ok_keys |-> {}, made |-> 0]]
    /\ processed_dir' = TRUE
    /\ UNCHANGED <<bucket, cache_file, audit, created, monitorVars>>

\* _check_new_contracts with a listing that succeeds
RaceCheck(i) ==
    /\ procs[i].pc = "loop"
    /\ \E found \in {check_new_contracts(bucket, procs[i].processed_contracts)} :
          procs' = [procs EXCEPT ![i].new_contracts = found,
                                 ![i].pc = IF procs[i].mode = "process_all" /\ found = <<>>
                                           THEN "done" ELSE "dispatch"]
    /\ UNCHANGED <<bucket, storeVars, created, monitorVars>>

\* one pass of the for loop: _process_contract (ok: an attempt succeeds) and what
\* run() or run_process_all() does with its result
RaceProcess(i, ok) ==
    /\ procs[i].pc = "dispatch"
    /\ procs[i].new_contracts # <<>>
    /\ LET p == procs[i]
           contract == Head(p.new_contracts)
           missing == IdentityMissing(GetField(contract, "extracted_name"),
                                      GetField(contract, "extracted_email"))
           success == ok /\ ~missing
           st == IF success THEN [p.stats EXCEPT !.contracts_processed = @ + 1]
                 ELSE IF missing THEN p.stats
                 ELSE [p.stats EXCEPT !.errors = @ + 1]
           processed == MarkProcessed(p.processed_contracts, contract.key, success)
       IN  /\ success => p.stats.contracts_processed < MaxCount /\ created[contract.key] < MaxCreated
           /\ (~success /\ ~missing) => p.stats.errors < MaxCount
           /\ created' = IF success THEN [created EXCEPT ![contract.key] = @ + 1] ELSE created
           /\ audit' = IF success /\ processed_dir
                        THEN audit \cup {ResultFileName(contract.key)} ELSE audit
           /\ cache_file' = IF success /\ SavesPerCandidate(p.mode)
                             THEN SaveCache(processed, st) ELSE cache_file
           /\ procs' = [procs EXCEPT ![i].stats = st,
                                      ![i].processed_contracts = processed,
                                      ![i].new_contracts = Tail(p.new_contracts),
                                      ![i].ok_keys = IF success THEN @ \cup {contract.key} ELSE @,
                                      ![i].made = IF success THEN @ + 1 ELSE @]
    /\ UNCHANGED <<bucket, processed_dir, monitorVars>>

\* the for loop is over: the daemon sleeps and tests running, process-all saves and returns
RaceEndCycle(i) ==
    /\ procs[i].pc = "dispatch"
    /\ procs[i].new_contracts = <<>>
    /\ IF procs[i].mode = "daemon"
       THEN /\ procs' = [procs EXCEPT ![i].pc = "loop"]
            /\ UNCHANGED cache_file
       ELSE /\ procs' = [procs EXCEPT ![i].pc = "done"]
            /\ cache_file' = SaveCache(procs[i].processed_contracts, procs[i].stats)
    /\ UNCHANGED <<bucket, processed_dir, audit, created, monitorVars>>

\* a signal has set running to false: the while test fails, the finally block saves
RaceExit(i) ==
    /\ procs[i].pc = "loop"
    /\ procs[i].mode = "daemon"
    /\ procs' = [procs EXCEPT ![i].pc = "done"]
    /\ cache_file' = SaveOnExit(cache_file, procs[i].processed_contracts, procs[i].stats)
    /\ UNCHANGED <<bucket, processed_dir, audit, created, monitorVars>>

\* a new contract is put into the bucket; it is the newest object
Upload(k) ==
    /\ bucket[k] = 0
    /\ Cardinality(Present(bucket)) < MaxObjects
    /\ \E t \in 1..MaxMtime :
          /\ \A j \in KeySet : bucket[j] < t
          /\ bucket' = [bucket EXCEPT ![k] = t]
    /\ UNCHANGED <<storeVars, created, procs, monitorVars>>

NextRace ==
    \/ \E i \in ProcIds, m \in RaceModes : RaceStart(i, m)
    \/ \E i \in ProcIds : RaceCheck(i)
    \/ \E i \in ProcIds, ok \in BOOLEAN : RaceProcess(i, ok)
    \/ \E i \in ProcIds : RaceEndCycle(i)
    \/ \E i \in ProcIds : RaceExit(i)
    \/ \E k \in RaceKeys : Upload(k)

RaceSpec == InitRace /\ [][NextRace]_vars

(* ---------------------------------------------------------------------- *)
(* One object in the bucket, the cache file may be damaged between runs    *)
(* ---------------------------------------------------------------------- *)
\* the cache file is truncated, made unreadable or edited outside the monitor
CorruptCache(content) ==
    /\ cache_file.exists
    /\ cache_file.content = "json"
    /\ cache_file' = [cache_file EXCEPT !.content = content]
    /\ UNCHANGED <<bucket, processed_dir, audit, created, monitorVars, procs>>

NextCache ==
    \/ NextIdem
    \/ \E content \in CacheContents \ {"json"} : CorruptCache(content)

CacheSpec == InitIdem /\ [][NextCache]_vars

(* ---------------------------------------------------------------------- *)
(* The daemon, started and interrupted any number of times over one object: *)
(* a started process keeps taking its steps                                *)
(* ---------------------------------------------------------------------- *)
DaemonStep ==
    \/ \E listing \in {"ok", "client_error", "exception"} : CheckNewContracts(listing)
    \/ Dispatch
    \/ \E o \in Outcomes : Attempt(o)
    \/ RetrySleep
    \/ EndCycle
    \/ PollSleep
    \/ ExitDaemon

NextShutdown ==
    \/ StartProcess("daemon")
    \/ Signal
    \/ DaemonStep

ShutdownSpec == InitIdem /\ [][NextShutdown]_vars /\ WF_vars(DaemonStep)

(* ---------------------------------------------------------------------- *)
(* The daemon over one object while the clock advances: the instants lie   *)
(* on both sides of the two thresholds of the adaptive interval            *)
(* ---------------------------------------------------------------------- *)
Instants == {0, 299, 300, 600, 3599, 3600, 3900}

\* time passes: datetime.now() returns a later instant
Tick(t) ==
    /\ t > now
    /\ now' = t
    /\ UNCHANGED <<bucket, storeVars, pc, mode, s3_helper, running, processed_contracts, stats, loopVars,
                   callVars, last, created, okThisRun, loaded, cleared, exit_status, errors,
                   exit_code, last_activity, interval, procs, edgeVars>>

NextTime ==
    \/ NextLive
    \/ \E t \in Instants : Tick(t)

TimeSpec == InitIdem /\ [][NextTime]_vars

(* ---------------------------------------------------------------------- *)
(* Properties                                                              *)
(* ---------------------------------------------------------------------- *)
IsPrefix(s, t) == Len(s) <= Len(t) /\ SubSeq(t, 1, Len(s)) = s

NoDuplicates(s) == \A i, j \in 1..Len(s) : s[i] = s[j] => i = j

CountersCapped ==
    \/ stats.errors >= MaxCount
    \/ stats.contracts_processed >= MaxCount
    \/ \E k \in KeySet : created[k] >= MaxCreated

Eligible(k) ==
    /\ bucket[k] > 0
    /\ EndsWith(Lower(k), DotPdf)
    /\ ~StartsWith(k, AuditPrefix)
    /\ Truthy(ExtractedName(StripName(k, contracts_folder)))
    /\ Truthy(ExtractedEmail(StripName(k, contracts_folder)))

\* C1: no create-envelope call is made for a key that is already in the
\* Processed-Set of the running monitor.
C1_NoResubmit == pc = "attempt" => cur.key \notin processed_contracts

\* C2: in every cycle the keys dispatched so far are a duplicate-free prefix of
\* the listed keys that passed the filter, and all of them once the cycle is over.
C2_DispatchOrder ==
    /\ IsPrefix(dispatched, expected)
    /\ NoDuplicates(dispatched)
    /\ pc = "sleep" => dispatched = expected

AllEligibleProcessed == \A k \in KeySet : Eligible(k) => k \in processed_contracts

\* C3: while the daemon runs, every eligible key that stays in the bucket is
\* eventually in the Processed-Set (or the model's counters reached their cap).
C3_EventuallyProcessed == <>(AllEligibleProcessed \/ CountersCapped)

C5_AddedOnlyAfterSuccess ==
    /\ \A k \in processed_contracts \cup PersistedKeys(cache_file) : created[k] > 0
    /\ last.ret \in {"failed", "no_identity"} => ~last.set_changed

C5_Witness ==
    /\ last.ret = "failed"
    /\ created[last.key] > 0
    /\ last.key \notin processed_contracts \cup PersistedKeys(cache_file)

\* C6: whenever a candidate is dispatched, every key the Processor already
\* succeeded on in this process is in the persisted cache file.
C6_PersistedPerCandidate ==
    (pc = "attempt" /\ ~cleared) => okThisRun \subseteq PersistedKeys(cache_file)

\* C7: an invocation whose attempts all fail makes exactly 3 create-envelope calls,
\* sleeps the retry delay twice, returns failure, adds 1 to the error counter and
\* leaves the Processed-Set unchanged.
C7_RetryBound ==
    last.ret = "failed" =>
        /\ last.calls = 3
        /\ last.slept = 2 * retry_delay
        /\ last.errors_delta = 1
        /\ last.processed_delta = 0
        /\ ~last.set_changed

C7_Witness == last.ret = "failed" /\ last.calls = 3 /\ pc = "dispatch"

\* C8: after create-envelope returned validation_error or consent_required the
\* invocation makes no further attempt.
C8_TerminalErrorsNotRetried ==
    pc \in {"attempt", "retry_sleep"} => last_error \notin NonRetryable

C10_IdentityRequired ==
    /\ pc = "attempt" =>
          /\ Truthy(GetField(cur, "extracted_name"))
          /\ Truthy(GetField(cur, "extracted_email"))
    /\ last.ret = "no_identity" =>
          /\ last.calls = 0
          /\ last.processed_delta = 0
          /\ ~last.set_changed

C10_Witness ==
    /\ last.ret = "no_identity"
    /\ Truthy(GetField(cur, "extracted_name"))
    /\ ~Truthy(GetField(cur, "extracted_email"))

\* C11: an invocation that rejects its candidate for a missing name or email adds 1
\* to the error counter and leaves the Processed-Set unchanged.
C11_DataQualityCounted ==
    last.ret = "no_identity" =>
        /\ last.errors_delta = 1
        /\ ~last.set_changed
        /\ last.key \notin processed_contracts

C13_GracefulShutdown ==
    /\ [][(mode = "daemon" /\ pc = "loop" /\ ~running) => pc' \in {"loop", "idle"}]_vars
    /\ (mode = "daemon" /\ pc # "idle" /\ ~running)
           ~> \/ /\ pc = "idle"
                 /\ exit_status = "returned"
                 /\ cache_file.exists
                 /\ PersistedKeys(cache_file) = processed_contracts
              \/ CountersCapped

C15_StatsPrintedOnShutdown == exit_status # "raised"

Occurrences(key_list, k) == Cardinality({j \in 1..Len(key_list) : key_list[j] = k})

BothCreatedFor(k) ==
    \A i \in ProcIds :
        /\ procs[i].pc = "done"
        /\ procs[i].loaded = {}
        /\ procs[i].ok_keys = {k}
        /\ procs[i].made = 1

\* C16: when two processes that both loaded an empty Processed-Set have each created
\* one envelope for the same key and have ended, the persisted processed_contracts
\* holds that key exactly once, and two envelopes exist for it.
C16_SameKeyPersistedOnce ==
    \A k \in KeySet :
        BothCreatedFor(k) =>
            /\ cache_file.exists
            /\ Occurrences(cache_file.processed_contracts, k) = 1
            /\ created[k] = 2

C16_Witness == \E k \in KeySet : BothCreatedFor(k) /\ procs[1].mode # procs[2].mode

\* C17: no step of two processes sharing the cache file removes a key from the
\* persisted processed_contracts.
C17_PersistedNeverRemoved ==
    [][PersistedKeys(cache_file) \subseteq PersistedKeys(cache_file')]_vars

RoundTrips(processed, st) ==
    LET cf == SaveCache(processed, st)
    IN  /\ LoadProcessed(cf) = processed
        /\ LoadStats(cf).contracts_processed = st.contracts_processed
        /\ LoadStats(cf).errors = st.errors

C19_AdaptiveInterval ==
    [][(pc = "dispatch" /\ pc' = "sleep") =>
          LET e == now - last_activity
          IN  /\ e < 300 => interval' = 5
              /\ (300 <= e /\ e < 3600) => interval' = 30
              /\ e >= 3600 => interval' = 120
              /\ e = 600 => interval' = 30]_vars

C19_Witness == pc = "sleep" /\ now - last_activity = 600 /\ interval = 30

\* C20: last_activity changes only in the step in which a Processor invocation
\* returns success (then it becomes the current time) or when a monitor is
\* constructed: listings, failed invocations, cycle ends and sleeps leave it alone.
C20_ActivityOnlyOnSuccess ==
    [][/\ last_activity' # last_activity =>
             pc = "idle" \/ (pc = "attempt" /\ last'.ret = "success")
       /\ (pc = "attempt" /\ last'.ret = "success") => last_activity' = now]_vars

C20_Witness ==
    /\ pc = "sleep"
    /\ last.ret = "failed"
    /\ stats.errors = 2
    /\ last_activity = 300
    /\ now = 3900

\* C21: no key under the audit/ sub-prefix and no key that does not end in .pdf is
\* passed to _process_contract or reaches a create-envelope call.
C21_ReservedKeysNeverDispatched ==
    /\ \A i \in 1..Len(dispatched) :
          /\ ~StartsWith(dispatched[i], AuditPrefix)
          /\ EndsWith(Lower(dispatched[i]), DotPdf)
    /\ pc \in {"attempt", "retry_sleep"} =>
          /\ ~StartsWith(cur.key, AuditPrefix)
          /\ EndsWith(Lower(cur.key), DotPdf)

(* ---------------------------------------------------------------------- *)
(* The contract-processor lambda: one invocation per storage notification. *)
(* Objects are uploaded while notifications wait to be handled.            *)
(* ---------------------------------------------------------------------- *)
\* get_contract_by_name: contract_name += '.pdf' unless it ends with it
WithPdf(contract_name) ==
    IF EndsWith(Lower(contract_name), DotPdf) THEN contract_name ELSE contract_name \o DotPdf

FindByKey(files, file_key) ==
    IF \E i \in 1..Len(files) : files[i].key = file_key
    THEN files[CHOOSE i \in 1..Len(files) :
                   files[i].key = file_key /\ \A j \in 1..(i-1) : files[j].key # file_key]
    ELSE NoContract

get_contract_by_name(b, contract_name, folder_prefix) ==
    CHOOSE r \in {FindByKey(files, folder_prefix \o WithPdf(contract_name)) :
                    files \in {list_files_in_folder(b)}} : TRUE

\* get_latest_contract_data: None when the listing raises
get_latest_contract_data(b, listing) ==
    IF listing = "ok" THEN get_latest_contract(b, contracts_folder) ELSE NoContract

\* signer_email / signer_name after the automatic extraction: None unless the field is truthy
AutoExtracted(contract_data, field) ==
    IF contract_data # NoContract /\ Truthy(contract_data[field]) THEN contract_data[field] ELSE None

\* the call Eg002SigningViaEmailS3Controller.worker(args, contract_name) and the
\* document make_envelope_s3 finds for it
EnvelopeCall(b, contract_name, signer_name, signer_email) ==
    [contract_name |-> contract_name,
     signer_name |-> signer_name,
     signer_email |-> signer_email,
     document |-> IF contract_name = None
                  THEN get_latest_contract(b, contracts_folder)
                  ELSE get_contract_by_name(b, contract_name, contracts_folder)]

ListingOutcomes == {"ok", "exception"}

\* the envelope is created, the e-signature API refuses it (ApiException), or reading the
\* private key raises before the try block of create_signing_envelope
ApiOutcomes == {"success", "api_error", "raised"}

Returned(ok, err, made) ==
    [raised |-> FALSE, success |-> ok, error |-> err, calls |-> made]

Raised == [raised |-> TRUE, success |-> FALSE, error |-> "none", calls |-> {}]

\* create_signing_envelope of the lambda with auto_extract=True: its result, or the
\* exception that leaves it, and the worker call it made
EnvelopeResult(b, email, name, contract_name, listing, api) ==
    LET auto == email = None \/ name = None
        contract_data == IF auto THEN get_latest_contract_data(b, listing) ELSE NoContract
        signer_email == IF email = None
                        THEN AutoExtracted(contract_data, "extracted_email") ELSE email
        signer_name == IF name = None
                       THEN AutoExtracted(contract_data, "extracted_name") ELSE name
        call == EnvelopeCall(b, contract_name, signer_name, signer_email)
    IN  IF auto /\ contract_data = NoContract
        THEN Returned(FALSE, "no_contract_data", {})
        ELSE IF ~Truthy(signer_email) \/ ~Truthy(signer_name)
        THEN Returned(FALSE, "missing_parameters", {})
        ELSE IF api = "raised"
        THEN Raised
        ELSE IF call.document = NoContract
        THEN Returned(FALSE, "validation_error", {call})
        ELSE IF api = "success"
        THEN Returned(TRUE, "none", {call})
        ELSE Returned(FALSE, "api_error", {call})

\* 'statusCode': 200 if result['success'] else 400
StatusCode(result) == IF result.success THEN 200 ELSE 400

\* the except branch of lambda_handler
CriticalError == [statusCode |-> 500, success |-> FALSE, error |-> "critical_error"]

\* what lambda_handler returns for the outcome of the call it made
HttpResult(result) ==
    IF result.raised
    THEN CriticalError
    ELSE [statusCode |-> StatusCode(result), success |-> result.success, error |-> result.error]

\* LOG_LEVEL of the lambda's environment: the default, or a word that names no level
LogLevels == {"INFO", "verbose"}

\* getattr(logging, LAMBDA_CONFIG["log_level"]), before the try block, finds the level
IsLoggingLevel(log_level) == log_level \in {"DEBUG", "INFO", "WARNING", "ERROR", "CRITICAL"}

\* the invocation ended with an exception and no response
Unhandled == [statusCode |-> 0, success |-> FALSE, error |-> "raised"]

\* lambda_handler: the logging setup, then the call inside the try block
lambda_handler(log_level, result) ==
    IF IsLoggingLevel(log_level)
    THEN [response |-> HttpResult(result), calls |-> result.calls]
    ELSE [response |-> Unhandled, calls |-> {}]

\* a new contract is put into the bucket; the bucket notifies the lambda
PutObject(k) ==
    /\ bucket[k] = 0
    /\ Cardinality(Present(bucket)) < MaxObjects
    /\ \E t \in 1..MaxMtime :
          /\ \A j \in KeySet : bucket[j] < t
          /\ bucket' = [bucket EXCEPT ![k] = t]
    /\ events' = events \cup {k}
    /\ UNCHANGED <<storeVars, created, procs, monitorVars_core, envelope_calls, lambda_result,
                   extractorVars, webhookVars>>

\* lambda_handler on the notification of object_key: create_signing_envelope(None, None,
\* contract_name=object_key, auto_extract=True)
StorageEventWith(log_level, object_key, listing, api) ==
    /\ object_key \in events
    /\ events' = events \ {object_key}
    /\ \E r \in {lambda_handler(log_level,
                                  EnvelopeResult(bucket, None, None, object_key, listing, api))} :
          /\ envelope_calls' = envelope_calls \cup r.calls
          /\ lambda_result' = r.response
    /\ UNCHANGED <<bucket, storeVars, created, procs, monitorVars_core, extractorVars,
                   webhookVars>>

StorageEvent(object_key, listing, api) == StorageEventWith("INFO", object_key, listing, api)

InitLambda ==
    /\ bucket = [k \in KeySet |-> 0]
    /\ InitMonitor
    /\ InitEdge

NextLambda ==
    \/ \E k \in KeySet : PutObject(k)
    \/ \E k \in KeySet, listing \in ListingOutcomes, api \in ApiOutcomes :
          StorageEvent(k, listing, api)

LambdaSpec == InitLambda /\ [][NextLambda]_vars

\* the body of a direct call: a JSON text that json.loads may reject, with or without the
\* signer's email and name and the name of the contract
DirectEmail == <<"x", "@", "y">>

DirectName == <<"A", "l">>

DirectBodies ==
    [parses : BOOLEAN, email : {None, DirectEmail}, name : {None, DirectName},
     contract : {None, <<"a", "-", "b", "_", "c", "-", "d">>}]

\* direct calls are explored until this many different envelope calls were made
MaxCalls == 2

\* lambda_handler on an event without S3 records: process_direct_call
DirectCall(log_level, body, listing, api) ==
    /\ Cardinality(envelope_calls) < MaxCalls
    /\ \E r \in {lambda_handler(log_level,
                                  IF body.parses
                                  THEN EnvelopeResult(bucket, body.email, body.name,
                                                      body.contract, listing, api)
                                  ELSE Raised)} :
          /\ envelope_calls' = envelope_calls \cup r.calls
          /\ lambda_result' = r.response
    /\ UNCHANGED <<bucket, events, storeVars, created, procs, monitorVars_core, extractorVars,
                   webhookVars>>

\* at most one object was put into the bucket; its notification may still be pending
InitEntry ==
    /\ bucket \in {b \in [KeySet -> 0..MaxMtime] : ValidBucket(b)}
    /\ Cardinality(Present(bucket)) <= 1
    /\ InitMonitor
    /\ events \in SUBSET Present(bucket)
    /\ envelope_calls = {}
    /\ lambda_result = NoResponse
    /\ sample = None
    /\ extracted = NoContract
    /\ sheet = <<>>
    /\ sheets_helper = TRUE
    /\ webhook_result = NoResponse
    /\ tracker_calls = 0

NextEntry ==
    \/ \E log_level \in LogLevels, k \in KeySet, listing \in ListingOutcomes,
          api \in ApiOutcomes :
          StorageEventWith(log_level, k, listing, api)
    \/ \E log_level \in LogLevels, body \in DirectBodies, listing \in ListingOutcomes,
          api \in ApiOutcomes :
          DirectCall(log_level, body, listing, api)

EntrySpec == InitEntry /\ [][NextEntry]_vars

\* C22: for every envelope-creation call the signer name and email passed are those
\* extracted from the object key of the document the call is made for, also when another
\* object is uploaded between the notification and its handling.
C22_IdentityOfTheDocument ==
    \A call \in envelope_calls :
        /\ call.signer_name = ExtractedName(StripName(call.contract_name, contracts_folder))
        /\ call.signer_email = ExtractedEmail(StripName(call.contract_name, contracts_folder))

(* ---------------------------------------------------------------------- *)
(* The Identity Extractor applied to one object key: the key is any short  *)
(* filename over the characters the parser looks at, or the key of the     *)
(* end-to-end scenario.                                                    *)
(* ---------------------------------------------------------------------- *)
MaxLen == 5

Alphabet == {"a", "B", "-", "_", "@"}

KeyJoao == contracts_folder \o <<"j","o","a","o","-","s","i","l","v","a","_","j","o","a","o",".","s","i","l","v","a","-","g","m","a","i","l","-","c","o","m",".","p","d","f">>

KeyOf(body) == contracts_folder \o body \o DotPdf

Bodies == UNION {[1..n -> Alphabet] : n \in 1..MaxLen}

SampleKeys == {KeyOf(body) : body \in Bodies} \cup {KeyJoao}

\* get_latest_contract on a folder whose newest object is sample: the parsing part
Extract ==
    /\ extracted = NoContract
    /\ extracted' = ExtractIdentity([key |-> sample, last_modified |-> 1], contracts_folder)
    /\ UNCHANGED <<bucket, storeVars, created, procs, monitorVars_core, lambdaVars, sample,
                   webhookVars>>

InitExtract ==
    /\ bucket = [k \in KeySet |-> 0]
    /\ InitMonitor
    /\ events = {}
    /\ envelope_calls = {}
    /\ lambda_result = NoResponse
    /\ sample \in SampleKeys
    /\ extracted = NoContract
    /\ sheet = <<>>
    /\ sheets_helper = TRUE
    /\ webhook_result = NoResponse
    /\ tracker_calls = 0

NextExtract == Extract

ExtractSpec == InitExtract /\ [][NextExtract]_vars

\* the filename of a key: what lies between the folder prefix and the extension
BodyOf(key) == SubSeq(key, Len(contracts_folder) + 1, Len(key) - Len(DotPdf))

NamePartOf(body) == SubSeq(body, 1, LastIndexOf(body, "_") - 1)

EmailPartOf(body) == SubSeq(body, LastIndexOf(body, "_") + 1, Len(body))

\* name-part_email-part: a separator with something on both sides of the last one
IsConvention(body) ==
    /\ Contains(body, "_")
    /\ NamePartOf(body) # <<>>
    /\ EmailPartOf(body) # <<>>

\* name is name_part with every '-' turned into a space and every word title-cased
IsNameOf(name, name_part) ==
    /\ Len(name) = Len(name_part)
    /\ \A i \in 1..Len(name_part) :
          name[i] = IF name_part[i] = "-" THEN " "
                    ELSE IF i > 1 /\ IsCased(name_part[i-1]) THEN LowerChar(name_part[i])
                    ELSE UpperChar(name_part[i])

\* email is email_part with its last '-' turned into the '@'
IsEmailOf(email, email_part) ==
    /\ Len(email) = Len(email_part)
    /\ \A i \in 1..Len(email_part) :
          email[i] = IF i = LastIndexOf(email_part, "-") THEN "@" ELSE email_part[i]

\* C23: for the key joao-silva_joao.silva-gmail-com.pdf under the contracts prefix the
\* Identity Extractor returns the name 'Joao Silva' and the email 'joao.silva@gmail.com'.
C23_ScenarioA ==
    (sample = KeyJoao /\ extracted # NoContract) =>
        /\ extracted.extracted_name = <<"J","o","a","o"," ","S","i","l","v","a">>
        /\ extracted.extracted_email = <<"j","o","a","o",".","s","i","l","v","a","@","g","m","a","i","l",".","c","o","m">>

NoSeparator(k) == ~Contains(StripName(k, contracts_folder), "_")

IsNewest(b, k) ==
    /\ get_latest_contract(b, contracts_folder) # NoContract
    /\ get_latest_contract(b, contracts_folder).key = k

KeysOf(contracts) == {contracts[i].key : i \in 1..Len(contracts)}

\* C25: for an object key whose filename has no '_' separator the Identity Extractor
\* returns absent name and absent email without raising, and the Monitor drops the
\* candidate: the key is not among the candidates of the cycle, is not passed to the
\* Processor, gets no envelope and does not enter the Processed-Set.
C25_NoSeparatorDropped ==
    \A k \in Present(bucket) : NoSeparator(k) =>
        /\ IsNewest(bucket, k) =>
              /\ get_latest_contract(bucket, contracts_folder).extracted_name = None
              /\ get_latest_contract(bucket, contracts_folder).extracted_email = None
        /\ k \notin KeysOf(new_contracts)
        /\ k \notin KeySetOf(dispatched)
        /\ created[k] = 0
        /\ k \notin processed_contracts \cup PersistedKeys(cache_file)

C25_Witness ==
    /\ Present(bucket) = {KeyNoSep}
    /\ pc = "dispatch"
    /\ expected = <<KeyNoSep>>
    /\ new_contracts = <<>>
    /\ created[KeyNoSep] = 0

\* C26: every Processor invocation that reaches envelope creation leaves an audit record
\* for its key, written by that invocation, whether it succeeded or exhausted its retries.
C26_AuditRegardlessOfOutcome ==
    last.ret \in {"success", "failed"} =>
        /\ last.audited
        /\ ResultFileName(last.key) \in audit

(* ---------------------------------------------------------------------- *)
(* The webhook lambda: process_webhook on a notification of DocuSign, and  *)
(* the tracking worksheet it updates through GoogleSheetsHelper. Of a row  *)
(* the model keeps the cells cliente_nome, email, status (column F) and    *)
(* contrato_assinado; the other cells never hold a name or an email.       *)
(* ---------------------------------------------------------------------- *)
MaxRows == 2

NameAl == <<"A", "l">>

NameBo == <<"B", "o">>

EmailX == <<"x", "@", "y">>

EmailUpperX == <<"X", "@", "y">>

SignerNames == {NameAl, NameBo}

SignerEmails == {EmailX, EmailUpperX}

\* a row as add_or_update_contract_link leaves it
SheetRows ==
    [cliente_nome : SignerNames, email : SignerEmails,
     status : {"Enviado"}, contrato_assinado : {"aguardando"}]

Sheets == UNION {[1..n -> SheetRows] : n \in 0..MaxRows}

NoSigner == [name |-> None, email |-> None]

\* signers[0] of the payload: either field may be missing; no entry at all is NoSigner
Signers == [name : SignerNames \cup {None}, email : SignerEmails \cup {None}]

EnvelopeId == <<"e", "1">>

EventTypes == {"envelope-completed", "Envelope-Completed", "envelope-sent", "None"}

\* the parsed body of the request: event, data.envelopeId and the first signer
Payloads == [event : EventTypes, envelopeId : {None, EnvelopeId}, signer : Signers]

SheetsOutcomes == {"ok", "api_error"}

IsCompletion_any(event_type) == event_type # "None"

IsCompletion(event_type) == event_type = "envelope-completed"

\* _extract_envelope_info returns None unless the envelope id and the email are truthy
HasEnvelopeInfo(webhook_data) ==
    Truthy(webhook_data.envelopeId) /\ Truthy(webhook_data.signer.email)

\* worksheet.find(email): a cell whose value is exactly the query
HasCell(row, query) == row.cliente_nome = query \/ row.email = query

\* the row of the first such cell, 0 when there is none
FindCell(sh, query) ==
    IF \E r \in 1..Len(sh) : HasCell(sh[r], query)
    THEN CHOOSE r \in 1..Len(sh) : HasCell(sh[r], query) /\ \A q \in 1..(r-1) : ~HasCell(sh[q], query)
    ELSE 0

\* worksheet.update("F<row>", status)
UpdateStatusCell(sh, r, status) == IF r = 0 THEN sh ELSE [sh EXCEPT ![r].status = status]

\* GoogleSheetsHelper.update_contract_status(email, status), the definition in force: it
\* has no return statement, so a call that does not raise returns None
update_contract_status(sh, email, status, gs) ==
    IF gs = "api_error"
    THEN [sheet |-> sh, ret |-> "raised", row |-> 0]
    ELSE CHOOSE u \in {[sheet |-> UpdateStatusCell(sh, r, status), ret |-> "None", row |-> r] :
                         r \in {FindCell(sh, email)}} : TRUE

NotCalled(sh) == [sheet |-> sh, ret |-> "not_called", row |-> 0]

IsTrue_orNone(ret) == ret \in {"True", "None"}

\* `if success:` on the value update_contract_status returned
IsTrue(ret) == ret = "True"

ChangedRows(before, after) == {r \in 1..Len(before) : after[r] # before[r]}

\* the response of process_webhook, with what the call did to the worksheet
Response(code, body, webhook_data, upd, before) ==
    [statusCode |-> code,
     body |-> body,
     envelope_id |-> IF code = 200 /\ body = "processed" THEN webhook_data.envelopeId ELSE None,
     signer_email |-> IF code = 200 /\ body = "processed" THEN webhook_data.signer.email ELSE None,
     webhook_data |-> webhook_data,
     update |-> upd.ret,
     row |-> upd.row,
     changed |-> ChangedRows(before, upd.sheet)]

\* DocuSignWebhookHandler.process_webhook(webhook_data); gs: what the worksheet API does
ProcessWebhook(webhook_data, gs) ==
    /\ IF ~IsCompletion(webhook_data.event)
       THEN /\ webhook_result' = Response(200, "Event ignored", webhook_data, NotCalled(sheet), sheet)
            /\ tracker_calls' = 0
            /\ UNCHANGED sheet
       ELSE IF ~HasEnvelopeInfo(webhook_data)
       THEN /\ webhook_result' = Response(400, "Invalid envelope data", webhook_data,
                                          NotCalled(sheet), sheet)
            /\ tracker_calls' = 0
            /\ UNCHANGED sheet
       ELSE \E upd \in {IF sheets_helper
                        THEN update_contract_status(sheet, webhook_data.signer.email, "Assinado", gs)
                        ELSE NotCalled(sheet)} :
               /\ sheet' = upd.sheet
               /\ tracker_calls' = IF sheets_helper THEN 1 ELSE 0
               /\ webhook_result' =
                     IF sheets_helper /\ IsTrue(upd.ret)
                     THEN Response(200, "processed", webhook_data, upd, sheet)
                     ELSE Response(500, "Failed to update contract status", webhook_data, upd, sheet)
    /\ UNCHANGED <<bucket, storeVars, created, procs, monitorVars_core, lambdaVars, extractorVars,
                   sheets_helper>>

InitWebhook ==
    /\ bucket = [k \in KeySet |-> 0]
    /\ InitMonitor
    /\ events = {}
    /\ envelope_calls = {}
    /\ lambda_result = NoResponse
    /\ sample = None
    /\ extracted = NoContract
    /\ sheet \in Sheets
    /\ sheets_helper \in BOOLEAN
    /\ webhook_result = NoResponse
    /\ tracker_calls = 0

NextWebhook == \E webhook_data \in Payloads, gs \in SheetsOutcomes : ProcessWebhook(webhook_data, gs)

WebhookSpec == InitWebhook /\ [][NextWebhook]_vars

Handled == webhook_result # NoResponse

\* C27: for every event value other than 'envelope-completed', a missing event field
\* included, process_webhook returns statusCode 200 and makes no call to the Status
\* Tracker; no row of the worksheet changes.
C27_OnlyCompletionUpdates ==
    (Handled /\ webhook_result.webhook_data.event # "envelope-completed") =>
        /\ webhook_result.statusCode = 200
        /\ webhook_result.body = "Event ignored"
        /\ tracker_calls = 0
        /\ webhook_result.update = "not_called"
        /\ webhook_result.changed = {}

C27_Witness ==
    /\ Handled
    /\ webhook_result.webhook_data.event = "envelope-sent"
    /\ webhook_result.webhook_data.envelopeId = EnvelopeId
    /\ webhook_result.webhook_data.signer = [name |-> NameAl, email |-> EmailX]
    /\ FindCell(sheet, EmailX) = 1
    /\ sheets_helper
    /\ webhook_result.statusCode = 200

\* a valid completion notification has been handled
CompletionHandled ==
    /\ Handled
    /\ webhook_result.webhook_data.event = "envelope-completed"
    /\ HasEnvelopeInfo(webhook_result.webhook_data)

\* the lookup of the tracking row: name and email both equal, case-insensitively
RowMatches(row, signer) ==
    /\ Lower(row.cliente_nome) = Lower(signer.name)
    /\ Lower(row.email) = Lower(signer.email)

NoMatchingRow(sh, signer) == \A r \in 1..Len(sh) : ~RowMatches(sh[r], signer)

\* C28: a valid 'envelope-completed' notification for which no tracking row matches makes
\* the Status Tracker update report failure and process_webhook return a failure result
\* (statusCode 500 with an error body), not an exception; the update is called once.
C28_ScenarioB ==
    (CompletionHandled /\ NoMatchingRow(sheet, webhook_result.webhook_data.signer)) =>
        /\ webhook_result.statusCode = 500
        /\ webhook_result.body = "Failed to update contract status"
        /\ webhook_result.update # "True"
        /\ tracker_calls <= 1
        /\ sheets_helper => tracker_calls = 1

C28_Witness ==
    /\ CompletionHandled
    /\ webhook_result.webhook_data.signer = [name |-> NameAl, email |-> EmailX]
    /\ sheet = <<[cliente_nome |-> NameBo, email |-> EmailUpperX, status |-> "Enviado",
                  contrato_assinado |-> "aguardando"]>>
    /\ sheets_helper
    /\ webhook_result.update = "None"
    /\ webhook_result.row = 0
    /\ webhook_result.statusCode = 500

\* C29: when a valid 'envelope-completed' notification arrives whose signer has a tracking
\* row and the row update is performed without error, the update reports success and
\* process_webhook returns statusCode 200 with the envelope id and the signer email.
C29_CompletionAcknowledged ==
    (/\ CompletionHandled
     /\ sheets_helper
     /\ webhook_result.row # 0
     /\ webhook_result.update # "raised"
     /\ sheet[webhook_result.row].cliente_nome = webhook_result.webhook_data.signer.name
     /\ sheet[webhook_result.row].email = webhook_result.webhook_data.signer.email) =>
        /\ webhook_result.update = "True"
        /\ webhook_result.statusCode = 200
        /\ webhook_result.envelope_id = webhook_result.webhook_data.envelopeId
        /\ webhook_result.signer_email = webhook_result.webhook_data.signer.email

\* C30: on a completion notification the only row whose status can change is a row whose
\* name and email both equal, case-insensitively, those of the payload's signer; when the
\* row that was found matches the email but not the name, or only holds the email value in
\* some cell, it is left unchanged.
C30_OnlyTheSignersRow ==
    Handled =>
        /\ \A r \in webhook_result.changed :
              RowMatches(sheet[r], webhook_result.webhook_data.signer)
        /\ (/\ webhook_result.row # 0
            /\ ~RowMatches(sheet[webhook_result.row], webhook_result.webhook_data.signer)) =>
                 webhook_result.changed = {}

\* the nested fields a completion payload must carry
HasRequiredFields(webhook_data) ==
    /\ Truthy(webhook_data.envelopeId)
    /\ Truthy(webhook_data.signer.email)
    /\ Truthy(webhook_data.signer.name)

\* C31: an 'envelope-completed' payload that lacks the envelope identifier, a first signer
\* entry, the signer's email or the signer's name is rejected with statusCode 400 and
\* causes no Status Tracker update.
C31_IncompletePayloadRejected ==
    (/\ Handled
     /\ webhook_result.webhook_data.event = "envelope-completed"
     /\ ~HasRequiredFields(webhook_result.webhook_data)) =>
        /\ webhook_result.statusCode = 400
        /\ tracker_calls = 0
        /\ webhook_result.changed = {}

(* ---------------------------------------------------------------------- *)
(* Launcher commands and startup                                           *)
(* ---------------------------------------------------------------------- *)
\* the step in which the monitor process of a launcher command ends
ProcessEnded == pc # "idle" /\ pc' = "idle"

\* an exception left _process_contract while candidates were still to be processed
LoopBrokenByError == pc = "dispatch" /\ idx <= Len(new_contracts) /\ pc' = "idle"

\* the listing of the command's only check raised (counted by _check_new_contracts)
ListingFailed == pc = "loop" /\ stats'.errors > stats.errors

\* the command did not do its work: an exception occurred in it or a candidate failed
CommandFailed ==
    \/ ListingFailed
    \/ LoopBrokenByError
    \/ errors > 0
    \/ exit_status' = "raised"

\* C32: every launcher command maps its outcome to the exit code: when its monitor process
\* ends, the exit code is non-zero exactly when the command failed (a candidate of process-all
\* failed, an exception occurred, the daemon's loop ended because of an error) and 0 when it
\* succeeded.
C32_ExitCodeReflectsOutcome ==
    [][ProcessEnded => ((exit_code' # 0) <=> CommandFailed)]_vars

\* C33: if the storage client cannot be initialized at startup, the error leaves the
\* monitor constructor (the command ends with a non-zero exit code) and the polling loop
\* never starts: a running monitor always has its storage client, and the failed start
\* made no listing, no Processor invocation and no cache write.
C33_NoHalfInitializedLoop ==
    /\ [](pc # "idle" => s3_helper = "S3Helper")
    /\ [][(pc = "idle" /\ s3_helper' = "None") =>
             /\ pc' = "idle"
             /\ exit_code' # 0
             /\ new_contracts' = <<>>
             /\ dispatched' = <<>>
             /\ UNCHANGED <<cache_file, created, audit>>]_vars

C33_Witness ==
    /\ exit_status = "init_failed"
    /\ mode = "daemon"
    /\ cache_file.exists
    /\ \E k \in KeySet : Eligible(k) /\ k \notin PersistedKeys(cache_file)

(* ---------------------------------------------------------------------- *)
(* Run Statistics                                                          *)
(* ---------------------------------------------------------------------- *)
ProcessedDelta == stats'.contracts_processed - stats.contracts_processed

ErrorsDelta == stats'.errors - stats.errors

\* the step in which a Processor invocation returns True
SuccessStep == pc = "attempt" /\ pc' = "dispatch" /\ last'.ret = "success"

\* the step in which a Processor invocation leaves its retry loop without success
ExhaustedStep == pc \in {"attempt", "retry_sleep"} /\ pc' = "dispatch" /\ last'.ret = "failed"

\* the step in which _check_new_contracts runs
ListingStep == pc = "loop" /\ pc' # "loop" /\ (mode = "daemon" => running)

\* a listing step that shows none of the keys the bucket holds for it
FailedListing ==
    /\ ListingStep
    /\ pc' = "dispatch"
    /\ expected' = <<>>
    /\ ExpectedKeys(bucket, processed_contracts) # <<>>

\* what C34 says apart from the count of failed listings
CountersFollowInvocations ==
    /\ ProcessedDelta = (IF SuccessStep THEN 1 ELSE 0)
    /\ ExhaustedStep => ErrorsDelta = 1
    /\ ErrorsDelta \in {0, 1}
    /\ ErrorsDelta = 1 => ExhaustedStep \/ ListingStep
    /\ (loaded' = {} /\ pc' # "idle") =>
           Cardinality(processed_contracts') <= stats'.contracts_processed

\* C34 as stated: within a process contracts_processed grows by exactly 1 per Processor
\* invocation that returns success and not otherwise, errors grows by exactly 1 per
\* invocation that exhausts its retries and per failed listing and not otherwise, no
\* counter decreases, and from an empty cache the Processed-Set is never larger than
\* contracts_processed.
C34_CountersMatchEvents ==
    [][pc # "idle" =>
          /\ CountersFollowInvocations
          /\ FailedListing => ErrorsDelta = 1]_vars

\* C34 amended: as above, but of the failed listings only those are counted whose
\* exception reaches _check_new_contracts, and a counted listing yields no candidate; a
\* listing that fails inside the storage helper comes back empty and uncounted.
C34_CountersMatchCaughtEvents ==
    [][pc # "idle" =>
          /\ CountersFollowInvocations
          /\ (ListingStep /\ ErrorsDelta = 1) =>
                 (new_contracts' = <<>> /\ expected' = <<>>)]_vars

C34_Witness ==
    /\ pc = "dispatch"
    /\ mode = "daemon"
    /\ loaded = {}
    /\ new_contracts = <<>>
    /\ last.ret = "success"
    /\ stats.contracts_processed = 1
    /\ stats.errors = 1
    /\ Cardinality(processed_contracts) = 1

\* C35: a failure of the tracking-store upsert never fails envelope creation: whenever an
\* envelope has been created, the upsert having raised or not, the invocation returns
\* success, the Monitor counts the candidate as processed and its key is in the
\* Processed-Set.
C35_TrackerFailureIsNotFailure ==
    [][created' # created =>
          /\ last'.ret = "success"
          /\ last'.tracker \in UpsertOutcomes
          /\ ProcessedDelta = 1
          /\ cur.key \in processed_contracts']_vars

C35_Witness ==
    /\ last.ret = "success"
    /\ last.tracker = "error"
    /\ last.processed_delta = 1
    /\ last.key \in processed_contracts
    /\ created[last.key] = 1

\* a step of the single-check command: its start or a step of its monitor process
CheckCommandStep ==
    \/ pc = "idle" /\ pc' # "idle" /\ mode' = "check"
    \/ pc # "idle" /\ mode = "check"

\* C36: the single-check command is read-only with respect to processing state: it never
\* calls the Envelope Creator, its Processed-Set stays the one it loaded, and it leaves
\* the persisted cache file (and the audit records) unchanged, for every bucket content.
C36_CheckIsReadOnly ==
    [][CheckCommandStep =>
          /\ UNCHANGED <<cache_file, created, audit>>
          /\ calls' = 0
          /\ processed_contracts' = LoadProcessed(cache_file)]_vars

C36_Witness ==
    /\ pc = "idle"
    /\ mode = "check"
    /\ exit_status = "returned"
    /\ exit_code = 0
    /\ cache_file.exists
    /\ \E k \in KeySet : Eligible(k) /\ k \notin PersistedKeys(cache_file)

\* a monitor is constructed over a cache file that _load_cache cannot load
StartOverMalformedCache ==
    /\ pc = "idle"
    /\ UNCHANGED cache_file
    /\ cache_file.exists
    /\ cache_file.content # "json"

\* C37: startup with an unreadable or malformed cache file does not abort the
\* monitor: the process starts with an empty Processed-Set and zeroed counters, exactly
\* as when no cache file exists.
C37_MalformedCacheIsNoCache ==
    [][StartOverMalformedCache =>
          /\ pc' = "loop"
          /\ processed_contracts' = LoadProcessed(NoCacheFile)
          /\ stats' = LoadStats(NoCacheFile)]_vars

(* ---------------------------------------------------------------------- *)
(* The entry point of the contract-processor lambda                        *)
(* ---------------------------------------------------------------------- *)
StructuredFailures ==
    {"no_contract_data", "missing_parameters", "validation_error", "api_error"}

\* C38: the storage-event/direct-call entry point always returns a structured HTTP result:
\* statusCode 200 exactly when the envelope result has success=true, 400 when it is a
\* structured failure, and 500 when an exception occurred while handling the event.
C38_StructuredHttpResult ==
    lambda_result # NoResponse =>
        /\ lambda_result.statusCode \in {200, 400, 500}
        /\ lambda_result.statusCode = 200 <=> lambda_result.success
        /\ lambda_result.statusCode = 400 <=> lambda_result.error \in StructuredFailures
        /\ lambda_result.statusCode = 500 <=> lambda_result.error = "critical_error"
====
